---- MODULE Spec2Model ----
(***************************************************************************)
(* State-machine model of two classes of the Closure Library:              *)
(*                                                                         *)
(*   goog.fx.DragScrollSupport   (src/closure/goog/labs/testing/BUILD)     *)
(*   goog.history.Html5History   (src/closure/goog/history/html5history.js)*)
(*                                                                         *)
(* The two classes share no state.  SpecDrag runs the DragScrollSupport    *)
(* object alone, SpecHistory the Html5History object alone.                *)
(***************************************************************************)
EXTENDS Integers, Sequences, FiniteSets, TLC

(***************************************************************************)
(* Bounds of the model.                                                    *)
(***************************************************************************)
\* Width and height of the container are 0 or MaxDim (pixels).
MaxDim == 1
\* The margin passed to the constructor is 0 (none) or MaxMargin (pixels).
MaxMargin == 1
\* Left/top of the container in document coordinates (pixels).
ContainerLeft == 1
ContainerTop == 1
\* The document is scrolled by 0 or MaxDocScroll pixels on each axis.
MaxDocScroll == 1
\* The container's scroll offsets are followed from 0 up to this many steps.
MaxScrollSteps == 1
\* The number of entries the host keeps in its session history.
MaxHistory == 2
\* calculateScrollDelta is called with coordinate, min and rangeLength from 0
\* to MaxCoordinate.
MaxCoordinate == 4
\* constrainBounds_ is called for containers with sides from 0 to MaxSide
\* pixels and for margins from -1 to MaxSide, and for a container with sides
\* of LargeSide pixels and a margin of LargeMargin.
MaxSide == 4
LargeSide == 100
LargeMargin == 60

(***************************************************************************)
(* Program constants.                                                      *)
(***************************************************************************)
\* goog.fx.DragScrollSupport.SCROLL_STEP_
SCROLL_STEP_ == 8
\* constrainBounds_ multiplies by 0.25.  Rectangles that constrainBounds_
\* touches are kept in units of 1/QuarterScale pixel, so that a quarter of
\* any integer dimension is an integer of the model.
QuarterScale == 4

VARIABLES
  \* ---- goog.fx.DragScrollSupport ----
  constrainScroll_,             \* this.constrainScroll_
  horizontalScrolling_,         \* this.horizontalScrolling_
  margin_,                      \* this.margin_
  containerIsActuallyContent_,  \* this.containerIsActuallyContent_
  containerBounds_,             \* this.containerBounds_ (pixels)
  scrollBounds_,                \* this.scrollBounds_ (1/QuarterScale pixels)
  scrollDelta_,                 \* this.scrollDelta_
  scrollTimer_enabled,          \* this.scrollTimer_.enabled
  mouseMoveListening,           \* eventHandler_ listens to MOUSEMOVE
  tickListening,                \* eventHandler_ listens to goog.Timer.TICK
  dragDisposed,                 \* goog.Disposable's disposed flag
  scrollTop,                    \* this.containerNode_.scrollTop
  scrollLeft,                   \* this.containerNode_.scrollLeft
  dragLast,                     \* the last operation performed, with the
                                \* argument of a setter and the last pointer
                                \* sample (a history variable)
  \* ---- goog.history.Html5History ----
  enabled_,                     \* this.enabled_
  useFragment_,                 \* this.useFragment_
  pathPrefix_,                  \* this.pathPrefix_
  lastFragment_,                \* this.lastFragment_
  entries,                      \* window.history: the URLs of its entries
  index,                        \* window.history: the current entry;
                                \* window.location is entries[index]
  popstateListening,            \* onHistoryEvent_ listens to POPSTATE
  hashchangeListening,          \* onHistoryEvent_ listens to HASHCHANGE
  historyDisposed,              \* goog.Disposable's disposed flag
  pending,                      \* signals the host has yet to raise for the
                                \* navigation in progress
  historyLast,                  \* the last operation performed and what it
                                \* did (a history variable)
  winSupport,                   \* what the window has of the history API
  constructed,                  \* how far new Html5History(opt_win) has come
  \* ---- calls of the pure functions ----
  pureCall                      \* the last call of a pure function, with its
                                \* arguments and result (a history variable)

dragVars == <<constrainScroll_, horizontalScrolling_, margin_,
              containerIsActuallyContent_, containerBounds_, scrollBounds_,
              scrollDelta_, scrollTimer_enabled, mouseMoveListening,
              tickListening, dragDisposed, scrollTop, scrollLeft, dragLast>>

historyVars == <<enabled_, useFragment_, pathPrefix_, lastFragment_, entries,
                 index, popstateListening, hashchangeListening,
                 historyDisposed, pending, historyLast>>

windowVars == <<winSupport, constructed>>

vars == <<dragVars, historyVars, windowVars, pureCall>>

Min(a, b) == IF a < b THEN a ELSE b

(***************************************************************************)
(* goog.fx.DragScrollSupport                                               *)
(***************************************************************************)

\* A goog.math.Rect in pixels, scaled to 1/QuarterScale pixels.
ScaleRect(r) ==
  [left |-> QuarterScale * r.left, top |-> QuarterScale * r.top,
   width |-> QuarterScale * r.width, height |-> QuarterScale * r.height]

\* constrainBounds_ without the quarter-dimension cap.
constrainBounds_NoCap(bounds, margin) ==
  [left |-> bounds.left + QuarterScale * margin,
   top |-> bounds.top + QuarterScale * margin,
   width |-> bounds.width - 2 * QuarterScale * margin,
   height |-> bounds.height - 2 * QuarterScale * margin]

\* constrainBounds_(bounds), with this.margin_ = margin; bounds is in
\* 1/QuarterScale pixels, so bounds.height * 0.25 is bounds.height \div 4.
constrainBounds_(bounds, margin) ==
  IF margin # 0
  THEN LET quarterHeight == bounds.height \div QuarterScale
           yMargin == Min(QuarterScale * margin, quarterHeight)
           quarterWidth == bounds.width \div QuarterScale
           xMargin == Min(QuarterScale * margin, quarterWidth)
       IN  [left |-> bounds.left + xMargin,
            top |-> bounds.top + yMargin,
            width |-> bounds.width - 2 * xMargin,
            height |-> bounds.height - 2 * yMargin]
  ELSE bounds

\* calculateScrollDelta with an inclusive upper test.
calculateScrollDelta_Inclusive(coordinate, min, rangeLength) ==
  IF coordinate < min THEN -SCROLL_STEP_
  ELSE IF coordinate >= min + rangeLength THEN SCROLL_STEP_
  ELSE 0

\* calculateScrollDelta(coordinate, min, rangeLength)
calculateScrollDelta(coordinate, min, rangeLength) ==
  IF coordinate < min THEN -SCROLL_STEP_
  ELSE IF coordinate > min + rangeLength THEN SCROLL_STEP_
  ELSE 0

\* isInContainerBounds_ with the edges of the container excluded.
isInContainerBounds_Strict(x, y) ==
  /\ containerBounds_.left < x
  /\ containerBounds_.left + containerBounds_.width > x
  /\ containerBounds_.top < y
  /\ containerBounds_.top + containerBounds_.height > y

\* isInContainerBounds_(x, y), in pixels
isInContainerBounds_(x, y) ==
  /\ containerBounds_.left <= x
  /\ containerBounds_.left + containerBounds_.width >= x
  /\ containerBounds_.top <= y
  /\ containerBounds_.top + containerBounds_.height >= y

\* eventOffset of onMouseMove: the origin for BODY/HTML, the document scroll
\* otherwise.
EventOffset(docScroll) ==
  IF containerIsActuallyContent_ THEN [x |-> 0, y |-> 0] ELSE docScroll

\* deltaX of onMouseMove for the offset-adjusted coordinate x (pixels)
DeltaX(x) ==
  IF horizontalScrolling_
  THEN calculateScrollDelta(QuarterScale * x, scrollBounds_.left,
                            scrollBounds_.width)
  ELSE 0

\* deltaY of onMouseMove for the offset-adjusted coordinate y (pixels)
DeltaY(y) ==
  calculateScrollDelta(QuarterScale * y, scrollBounds_.top,
                       scrollBounds_.height)

\* StopCondition without its zero-delta test.
StopCondition_NoZeroTest(deltaX, deltaY, x, y) ==
  constrainScroll_ /\ ~isInContainerBounds_(x, y)

\* StopCondition without its constrained-scroll test.
StopCondition_NoConstrainTest(deltaX, deltaY, x, y) ==
  deltaX = 0 /\ deltaY = 0

\* The condition of onMouseMove under which the timer is stopped.
StopCondition(deltaX, deltaY, x, y) ==
  \/ (deltaX = 0 /\ deltaY = 0)
  \/ (constrainScroll_ /\ ~isInContainerBounds_(x, y))

\* The pointer coordinates (offset-adjusted, pixels) the model samples: from
\* one pixel before the container to one pixel after it.
SampleXs == (containerBounds_.left - 1)..
              (containerBounds_.left + containerBounds_.width + 1)
SampleYs == (containerBounds_.top - 1)..
              (containerBounds_.top + containerBounds_.height + 1)
DocScrolls == [x : {0, MaxDocScroll}, y : {0, MaxDocScroll}]

\* Construction: new goog.fx.DragScrollSupport(containerNode, opt_margin,
\* opt_externalMouseMoveTracking), followed by setupListeners_.
DragInit ==
  /\ constrainScroll_ = FALSE
  /\ horizontalScrolling_ = TRUE
  /\ margin_ \in {0, MaxMargin}
  /\ containerIsActuallyContent_ \in BOOLEAN
  /\ containerBounds_ \in [left : {ContainerLeft}, top : {ContainerTop},
                           width : {0, MaxDim}, height : {0, MaxDim}]
  /\ scrollBounds_ = constrainBounds_(ScaleRect(containerBounds_), margin_)
  /\ scrollDelta_ = [x |-> 0, y |-> 0]
  /\ scrollTimer_enabled = FALSE
  /\ mouseMoveListening \in BOOLEAN
  /\ tickListening = TRUE
  /\ dragDisposed = FALSE
  /\ scrollTop = 0
  /\ scrollLeft = 0
  /\ dragLast = [op |-> "new", flag |-> FALSE, x |-> ContainerLeft,
                 y |-> ContainerTop, constrain |-> FALSE]

\* setConstrainScroll without its test of this.margin_.
setConstrainScroll_NoMarginTest(constrain) ==
  /\ constrainScroll_' = constrain
  /\ dragLast' = [dragLast EXCEPT !.op = "setConstrainScroll",
                                  !.flag = constrain]
  /\ UNCHANGED <<horizontalScrolling_, margin_, containerIsActuallyContent_,
                 containerBounds_, scrollBounds_, scrollDelta_,
                 scrollTimer_enabled, mouseMoveListening, tickListening,
                 dragDisposed, scrollTop, scrollLeft>>
  /\ UNCHANGED <<historyVars, windowVars, pureCall>>

\* setConstrainScroll(constrain)
setConstrainScroll(constrain) ==
  /\ constrainScroll_' = (margin_ # 0 /\ constrain)
  /\ dragLast' = [dragLast EXCEPT !.op = "setConstrainScroll",
                                  !.flag = constrain]
  /\ UNCHANGED <<horizontalScrolling_, margin_, containerIsActuallyContent_,
                 containerBounds_, scrollBounds_, scrollDelta_,
                 scrollTimer_enabled, mouseMoveListening, tickListening,
                 dragDisposed, scrollTop, scrollLeft>>
  /\ UNCHANGED <<historyVars, windowVars, pureCall>>

\* setHorizontalScrolling clearing the stored horizontal delta when it
\* disallows horizontal scrolling.
setHorizontalScrolling_ClearingDelta(scrolling) ==
  /\ horizontalScrolling_' = scrolling
  /\ scrollDelta_' = IF scrolling THEN scrollDelta_
                     ELSE [scrollDelta_ EXCEPT !.x = 0]
  /\ dragLast' = [dragLast EXCEPT !.op = "setHorizontalScrolling",
                                  !.flag = scrolling]
  /\ UNCHANGED <<constrainScroll_, margin_, containerIsActuallyContent_,
                 containerBounds_, scrollBounds_, scrollTimer_enabled,
                 mouseMoveListening, tickListening, dragDisposed, scrollTop,
                 scrollLeft>>
  /\ UNCHANGED <<historyVars, windowVars, pureCall>>

\* setHorizontalScrolling(scrolling)
setHorizontalScrolling(scrolling) ==
  /\ horizontalScrolling_' = scrolling
  /\ dragLast' = [dragLast EXCEPT !.op = "setHorizontalScrolling",
                                  !.flag = scrolling]
  /\ UNCHANGED <<constrainScroll_, margin_, containerIsActuallyContent_,
                 containerBounds_, scrollBounds_, scrollDelta_,
                 scrollTimer_enabled, mouseMoveListening, tickListening,
                 dragDisposed, scrollTop, scrollLeft>>
  /\ UNCHANGED <<historyVars, windowVars, pureCall>>

\* onMouseMove(event), event.clientX = clientX, event.clientY = clientY, with
\* the document scrolled by docScroll.  The handler runs as the MOUSEMOVE
\* listener, or is called by the client that tracks the mouse itself; a
\* disposed object (listener removed, timer released) takes no samples.
onMouseMove(clientX, clientY, docScroll) ==
  LET eventOffset == EventOffset(docScroll)
      x == clientX + eventOffset.x
      y == clientY + eventOffset.y
      deltaX == DeltaX(x)
      deltaY == DeltaY(y)
  IN  /\ ~dragDisposed
      /\ x \in SampleXs
      /\ y \in SampleYs
      /\ scrollDelta_' = [x |-> deltaX, y |-> deltaY]
      /\ scrollTimer_enabled' =
           IF StopCondition(deltaX, deltaY, x, y) THEN FALSE ELSE TRUE
      /\ dragLast' = [op |-> "onMouseMove", flag |-> FALSE, x |-> x, y |-> y,
                      constrain |-> constrainScroll_]
      /\ UNCHANGED <<constrainScroll_, horizontalScrolling_, margin_,
                     containerIsActuallyContent_, containerBounds_,
                     scrollBounds_, mouseMoveListening, tickListening,
                     dragDisposed, scrollTop, scrollLeft>>
      /\ UNCHANGED <<historyVars, windowVars, pureCall>>

\* The scroll offsets the model follows.
ScrollRange == 0..(SCROLL_STEP_ * MaxScrollSteps)

\* onTick_ called whether or not the timer runs.
onTick_TimerStopped ==
  /\ tickListening
  /\ scrollTop + scrollDelta_.y \in ScrollRange
  /\ scrollLeft + scrollDelta_.x \in ScrollRange
  /\ scrollTop' = scrollTop + scrollDelta_.y
  /\ scrollLeft' = scrollLeft + scrollDelta_.x
  /\ dragLast' = [dragLast EXCEPT !.op = "onTick_", !.flag = FALSE]
  /\ UNCHANGED <<constrainScroll_, horizontalScrolling_, margin_,
                 containerIsActuallyContent_, containerBounds_, scrollBounds_,
                 scrollDelta_, scrollTimer_enabled, mouseMoveListening,
                 tickListening, dragDisposed>>
  /\ UNCHANGED <<historyVars, windowVars, pureCall>>

\* onTick_(event): the TICK listener, called by the running timer.
onTick_ ==
  /\ scrollTimer_enabled
  /\ tickListening
  /\ scrollTop + scrollDelta_.y \in ScrollRange
  /\ scrollLeft + scrollDelta_.x \in ScrollRange
  /\ scrollTop' = scrollTop + scrollDelta_.y
  /\ scrollLeft' = scrollLeft + scrollDelta_.x
  /\ dragLast' = [dragLast EXCEPT !.op = "onTick_", !.flag = FALSE]
  /\ UNCHANGED <<constrainScroll_, horizontalScrolling_, margin_,
                 containerIsActuallyContent_, containerBounds_, scrollBounds_,
                 scrollDelta_, scrollTimer_enabled, mouseMoveListening,
                 tickListening, dragDisposed>>
  /\ UNCHANGED <<historyVars, windowVars, pureCall>>

\* disposeInternal without this.scrollTimer_.dispose().
DragScrollSupport_disposeInternal_NoTimer ==
  /\ mouseMoveListening' = FALSE
  /\ tickListening' = FALSE
  /\ UNCHANGED scrollTimer_enabled

\* disposeInternal(): this.eventHandler_.dispose() removes the handler's
\* listeners, this.scrollTimer_.dispose() stops and releases the timer.
DragScrollSupport_disposeInternal ==
  /\ mouseMoveListening' = FALSE
  /\ tickListening' = FALSE
  /\ scrollTimer_enabled' = FALSE

\* dispose() of goog.Disposable: runs disposeInternal once, on the first call.
DragScrollSupport_dispose ==
  /\ IF dragDisposed
     THEN UNCHANGED <<mouseMoveListening, tickListening, scrollTimer_enabled>>
     ELSE DragScrollSupport_disposeInternal
  /\ dragDisposed' = TRUE
  /\ dragLast' = [dragLast EXCEPT !.op = "dispose", !.flag = FALSE]
  /\ UNCHANGED <<constrainScroll_, horizontalScrolling_, margin_,
                 containerIsActuallyContent_, containerBounds_, scrollBounds_,
                 scrollDelta_, scrollTop, scrollLeft>>
  /\ UNCHANGED <<historyVars, windowVars, pureCall>>

DragNext ==
  \/ \E constrain \in BOOLEAN : setConstrainScroll(constrain)
  \/ \E scrolling \in BOOLEAN : setHorizontalScrolling(scrolling)
  \/ \E x \in SampleXs, y \in SampleYs, docScroll \in DocScrolls :
       onMouseMove(x - EventOffset(docScroll).x, y - EventOffset(docScroll).y,
                   docScroll)
  \/ onTick_
  \/ DragScrollSupport_dispose

(***************************************************************************)
(* goog.history.Html5History                                               *)
(*                                                                         *)
(* A string is a sequence of one-character strings.  A URL is the string   *)
(* path ? query # fragment that window.location.href ends with; scheme and *)
(* host never change and are left out.  The object is built without a      *)
(* token transformer (this.transformer_ = null).                           *)
(***************************************************************************)

\* null, as distinct from every string
Null == <<"null">>

\* The tokens passed to setToken and replaceToken, and the fragments the
\* user navigates to: a plain one, and one that is a URL delimiter.
Tokens == {<<"a">>, <<"#">>}

\* The path prefixes passed to setPathPrefix; a path prefix starts and ends
\* with a slash.
PathPrefixes == {<<"/">>}

\* window.location when the object is built.
InitialHref == <<"/">>

\* The signals a host raises for one navigation, in order.
SignalLists == {<<"popstate">>, <<"popstate", "hashchange">>, <<"hashchange">>}

\* s.indexOf(c) + 1: the position of the first c in s, 0 when there is none
IndexOf(s, c) ==
  IF \E i \in 1..Len(s) : s[i] = c
  THEN CHOOSE i \in 1..Len(s) : s[i] = c /\ \A j \in 1..(i - 1) : s[j] # c
  ELSE 0

\* s.substring(from), from counted from 0; also s.slice(from) for from >= 0
Substring(s, from) == SubSeq(s, from + 1, Len(s))

\* window.location.href
Href == entries[index]

\* url without its fragment
BeforeFragment(url) ==
  IF IndexOf(url, "#") = 0 THEN url ELSE SubSeq(url, 1, IndexOf(url, "#") - 1)

\* window.location.pathname: the URL up to its query and fragment
Pathname(url) ==
  LET u == BeforeFragment(url)
  IN  IF IndexOf(u, "?") = 0 THEN u ELSE SubSeq(u, 1, IndexOf(u, "?") - 1)

\* window.location.search: "?" and the query, or "" when the query is absent
\* or empty
Search(url) ==
  LET u == BeforeFragment(url)
      q == IF IndexOf(u, "?") = 0 THEN <<>>
           ELSE SubSeq(u, IndexOf(u, "?"), Len(u))
  IN  IF Len(q) <= 1 THEN <<>> ELSE q

\* The URL the host makes of the url given to pushState or replaceState,
\* resolved against window.location: a fragment-only url keeps the path and
\* query, a url that starts with a slash replaces everything.
ResolveUrl(url) ==
  IF url # <<>> /\ Head(url) = "#" THEN BeforeFragment(Href) \o url ELSE url

\* getFragment_()
getFragment_ ==
  IF useFragment_
  THEN LET loc == Href
           idx == IndexOf(loc, "#") - 1
       IN  IF idx < 0 THEN <<>> ELSE Substring(loc, idx + 1)
  ELSE Null

\* getToken()
getToken ==
  IF useFragment_
  THEN getFragment_
  ELSE Substring(Pathname(Href), Len(pathPrefix_))

\* getUrl_(token)
getUrl_(token) ==
  IF useFragment_
  THEN <<"#">> \o token
  ELSE pathPrefix_ \o token \o Search(Href)

\* new goog.history.Event(token, isNavigation)
Event(token, isNavigation) == [token |-> token, isNavigation |-> isNavigation]

\* What historyLast records of a step: the operation, its token and boolean
\* arguments (for a signal: whether onHistoryEvent_ was registered for it),
\* the events dispatched, the pushState and replaceState calls, and the token
\* of the most recent event dispatched so far.
Did(op, token, flag, events, pushed, replaced) ==
  [op |-> op, token |-> token, flag |-> flag, events |-> events,
   pushed |-> pushed, replaced |-> replaced,
   reported |-> IF events # <<>>
                THEN events[Len(events)].token
                ELSE historyLast.reported]

\* What historyLast holds before any step: no event has been dispatched.
NothingDone(op) ==
  [op |-> op, token |-> <<>>, flag |-> FALSE, events |-> <<>>,
   pushed |-> 0, replaced |-> 0, reported |-> Null]

\* Construction: new goog.history.Html5History(opt_win), with the prototype's
\* defaults of enabled_, useFragment_ and pathPrefix_.
HistoryInit ==
  /\ enabled_ = FALSE
  /\ useFragment_ = TRUE
  /\ pathPrefix_ = <<"/">>
  /\ lastFragment_ = Null
  /\ entries = <<InitialHref>>
  /\ index = 1
  /\ popstateListening = TRUE
  /\ hashchangeListening = TRUE
  /\ historyDisposed = FALSE
  /\ pending = <<>>
  /\ historyLast = NothingDone("new")
  /\ winSupport = "pushState"
  /\ constructed = "ok"

\* The calling code runs between navigations: the host raises the signals of
\* a navigation one after the other, with no other code in between.
Idle == pending = <<>>

\* setEnabled(enable) without its early return.
setEnabled_NoEarlyReturn(enable) ==
  /\ Idle
  /\ enabled_' = enable
  /\ historyLast' = Did("setEnabled", <<>>, enable,
                        IF enable THEN <<Event(getToken, FALSE)>> ELSE <<>>,
                        0, 0)
  /\ UNCHANGED <<useFragment_, pathPrefix_, lastFragment_, entries, index,
                 popstateListening, hashchangeListening, historyDisposed,
                 pending>>
  /\ UNCHANGED <<dragVars, windowVars, pureCall>>

\* setEnabled(enable)
setEnabled(enable) ==
  /\ Idle
  /\ IF enable = enabled_
     THEN /\ UNCHANGED enabled_
          /\ historyLast' = Did("setEnabled", <<>>, enable, <<>>, 0, 0)
     ELSE /\ enabled_' = enable
          /\ historyLast' = Did("setEnabled", <<>>, enable,
                                IF enable THEN <<Event(getToken, FALSE)>>
                                ELSE <<>>,
                                0, 0)
  /\ UNCHANGED <<useFragment_, pathPrefix_, lastFragment_, entries, index,
                 popstateListening, hashchangeListening, historyDisposed,
                 pending>>
  /\ UNCHANGED <<dragVars, windowVars, pureCall>>

\* The session history after the host adds an entry for url: the entries
\* after the current one are dropped, url becomes the last entry, and a host
\* that keeps MaxHistory entries drops the oldest one beyond that.
AddEntry(url) ==
  LET added == Append(SubSeq(entries, 1, index), url)
  IN  IF Len(added) > MaxHistory THEN Tail(added) ELSE added

\* window.history.pushState(null, title, url): the new entry is the current
\* one.
PushState(url) ==
  /\ entries' = AddEntry(ResolveUrl(url))
  /\ index' = Len(AddEntry(ResolveUrl(url)))

\* window.history.replaceState(null, title, url)
ReplaceState(url) ==
  /\ entries' = [entries EXCEPT ![index] = ResolveUrl(url)]
  /\ index' = index

\* setToken(token, opt_title)
setToken(token) ==
  /\ Idle
  /\ IF token = getToken
     THEN /\ UNCHANGED <<entries, index>>
          /\ historyLast' = Did("setToken", token, FALSE, <<>>, 0, 0)
     ELSE /\ PushState(getUrl_(token))
          /\ historyLast' = Did("setToken", token, FALSE,
                                <<Event(token, FALSE)>>, 1, 0)
  /\ UNCHANGED <<enabled_, useFragment_, pathPrefix_, lastFragment_,
                 popstateListening, hashchangeListening, historyDisposed,
                 pending>>
  /\ UNCHANGED <<dragVars, windowVars, pureCall>>

\* replaceToken with the equality test of setToken.
replaceToken_IfChanged(token) ==
  /\ Idle
  /\ IF token = getToken
     THEN /\ UNCHANGED <<entries, index>>
          /\ historyLast' = Did("replaceToken", token, FALSE, <<>>, 0, 0)
     ELSE /\ ReplaceState(getUrl_(token))
          /\ historyLast' = Did("replaceToken", token, FALSE,
                                <<Event(token, FALSE)>>, 0, 1)
  /\ UNCHANGED <<enabled_, useFragment_, pathPrefix_, lastFragment_,
                 popstateListening, hashchangeListening, historyDisposed,
                 pending>>
  /\ UNCHANGED <<dragVars, windowVars, pureCall>>

\* replaceToken(token, opt_title)
replaceToken(token) ==
  /\ Idle
  /\ ReplaceState(getUrl_(token))
  /\ historyLast' = Did("replaceToken", token, FALSE,
                        <<Event(token, FALSE)>>, 0, 1)
  /\ UNCHANGED <<enabled_, useFragment_, pathPrefix_, lastFragment_,
                 popstateListening, hashchangeListening, historyDisposed,
                 pending>>
  /\ UNCHANGED <<dragVars, windowVars, pureCall>>

\* disposeInternal(): unlistens POPSTATE, and HASHCHANGE if useFragment_.
Html5History_disposeInternal ==
  /\ popstateListening' = FALSE
  /\ hashchangeListening' = IF useFragment_ THEN FALSE ELSE hashchangeListening

\* dispose() of goog.Disposable: runs disposeInternal once, on the first call.
Html5History_dispose ==
  /\ Idle
  /\ IF historyDisposed
     THEN UNCHANGED <<popstateListening, hashchangeListening>>
     ELSE Html5History_disposeInternal
  /\ historyDisposed' = TRUE
  /\ historyLast' = Did("dispose", <<>>, FALSE, <<>>, 0, 0)
  /\ UNCHANGED <<enabled_, useFragment_, pathPrefix_, lastFragment_, entries,
                 index, pending>>
  /\ UNCHANGED <<dragVars, windowVars, pureCall>>

\* setUseFragment without its goog.events.unlisten call.
setUseFragment_NoUnlisten(useFragment) ==
  /\ Idle
  /\ IF useFragment_ # useFragment
     THEN /\ hashchangeListening' = (useFragment \/ hashchangeListening)
          /\ useFragment_' = useFragment
     ELSE UNCHANGED <<hashchangeListening, useFragment_>>
  /\ historyLast' = Did("setUseFragment", <<>>, useFragment, <<>>, 0, 0)
  /\ UNCHANGED <<enabled_, pathPrefix_, lastFragment_, entries, index,
                 popstateListening, historyDisposed, pending>>
  /\ UNCHANGED <<dragVars, windowVars, pureCall>>

\* setUseFragment(useFragment): goog.events.listen registers a listener that
\* is not registered yet, goog.events.unlisten removes one that is.
setUseFragment(useFragment) ==
  /\ Idle
  /\ IF useFragment_ # useFragment
     THEN /\ hashchangeListening' = useFragment
          /\ useFragment_' = useFragment
     ELSE UNCHANGED <<hashchangeListening, useFragment_>>
  /\ historyLast' = Did("setUseFragment", <<>>, useFragment, <<>>, 0, 0)
  /\ UNCHANGED <<enabled_, pathPrefix_, lastFragment_, entries, index,
                 popstateListening, historyDisposed, pending>>
  /\ UNCHANGED <<dragVars, windowVars, pureCall>>

\* setPathPrefix(pathPrefix)
setPathPrefix(pathPrefix) ==
  /\ Idle
  /\ pathPrefix_' = pathPrefix
  /\ historyLast' = Did("setPathPrefix", pathPrefix, FALSE, <<>>, 0, 0)
  /\ UNCHANGED <<enabled_, useFragment_, lastFragment_, entries, index,
                 popstateListening, hashchangeListening, historyDisposed,
                 pending>>
  /\ UNCHANGED <<dragVars, windowVars, pureCall>>

\* The test of onHistoryEvent_ replaced by true.
ShouldNavigate_Always(type, fragment) == TRUE

\* The test of onHistoryEvent_ for firing NAVIGATE.
ShouldNavigate(type, fragment) ==
  type = "popstate" \/ fragment # lastFragment_

\* The events of onHistoryEvent_ with isNavigation false.
onHistoryEvent_Events_NotNavigation(type) ==
  IF enabled_ /\ ShouldNavigate(type, getFragment_)
  THEN <<Event(getToken, FALSE)>>
  ELSE <<>>

\* onHistoryEvent_(e), e.type = type: the events it dispatches
onHistoryEvent_Events(type) ==
  IF enabled_ /\ ShouldNavigate(type, getFragment_)
  THEN <<Event(getToken, TRUE)>>
  ELSE <<>>

\* onHistoryEvent_(e), e.type = type: this.lastFragment_ afterwards
onHistoryEvent_LastFragment(type) ==
  IF enabled_ /\ ShouldNavigate(type, getFragment_)
  THEN getFragment_
  ELSE lastFragment_

\* Whether onHistoryEvent_ is registered for the signal.
Listening(type) ==
  IF type = "popstate" THEN popstateListening ELSE hashchangeListening

\* The user goes back or forward to entry i of the session history; the host
\* then raises the signals.
HostTraverse(i, signals) ==
  /\ Idle
  /\ i # index
  /\ index' = i
  /\ pending' = signals
  /\ historyLast' = Did("traverse", <<>>, FALSE, <<>>, 0, 0)
  /\ UNCHANGED <<enabled_, useFragment_, pathPrefix_, lastFragment_, entries,
                 popstateListening, hashchangeListening, historyDisposed>>
  /\ UNCHANGED <<dragVars, windowVars, pureCall>>

\* The user navigates to another fragment of the page: the host adds an
\* entry for it and then raises the signals.
HostSetFragment(fragment, signals) ==
  LET url == BeforeFragment(Href) \o <<"#">> \o fragment
  IN  /\ Idle
      /\ url # Href
      /\ entries' = AddEntry(url)
      /\ index' = Len(AddEntry(url))
      /\ pending' = signals
      /\ historyLast' = Did("setFragment", fragment, FALSE, <<>>, 0, 0)
      /\ UNCHANGED <<enabled_, useFragment_, pathPrefix_, lastFragment_,
                     popstateListening, hashchangeListening, historyDisposed>>
      /\ UNCHANGED <<dragVars, windowVars, pureCall>>

\* The name historyLast gives the handling of a signal: its type, and for the
\* HASHCHANGE that follows the POPSTATE of the same navigation a name of its
\* own.
SignalOp(type) ==
  IF type = "hashchange" /\ historyLast.op = "popstate"
  THEN "hashchange after popstate"
  ELSE type

\* The host raises the next signal of the navigation; onHistoryEvent_ handles
\* it if it is registered for it.
HostSignal ==
  LET type == Head(pending)
      events == IF Listening(type) THEN onHistoryEvent_Events(type) ELSE <<>>
  IN  /\ pending # <<>>
      /\ pending' = Tail(pending)
      /\ lastFragment_' = IF Listening(type)
                          THEN onHistoryEvent_LastFragment(type)
                          ELSE lastFragment_
      /\ historyLast' = Did(SignalOp(type), <<>>, Listening(type), events,
                            0, 0)
      /\ UNCHANGED <<enabled_, useFragment_, pathPrefix_, entries, index,
                     popstateListening, hashchangeListening, historyDisposed>>
      /\ UNCHANGED <<dragVars, windowVars, pureCall>>

HistoryNext ==
  \/ \E enable \in BOOLEAN : setEnabled(enable)
  \/ \E token \in Tokens : setToken(token)
  \/ \E token \in Tokens : replaceToken(token)
  \/ Html5History_dispose
  \/ \E useFragment \in BOOLEAN : setUseFragment(useFragment)
  \/ \E pathPrefix \in PathPrefixes : setPathPrefix(pathPrefix)
  \/ \E i \in 1..Len(entries), signals \in SignalLists :
       HostTraverse(i, signals)
  \/ \E fragment \in Tokens, signals \in SignalLists :
       HostSetFragment(fragment, signals)
  \/ HostSignal

\* The DragScrollSupport object while SpecHistory runs: one freshly built.
DragIdle ==
  /\ DragInit
  /\ margin_ = 0
  /\ ~containerIsActuallyContent_
  /\ containerBounds_.width = 0
  /\ containerBounds_.height = 0
  /\ mouseMoveListening

\* No pure function has been called.
NoPureCall == pureCall = [fn |-> "none", args |-> <<>>, result |-> <<>>]

\* Both objects freshly built, the DragScrollSupport with any of its
\* construction arguments.
InitDrag == DragInit /\ HistoryInit /\ NoPureCall

\* Both objects freshly built.
InitHistory == HistoryInit /\ DragIdle /\ NoPureCall

SpecDrag == InitDrag /\ [][DragNext]_vars

SpecHistory == InitHistory /\ [][HistoryNext]_vars

(***************************************************************************)
(* Construction of goog.history.Html5History                               *)
(***************************************************************************)

\* What a window can have of the history API: no history object, a history
\* object without pushState, or a history object with pushState.
WinSupports == {"none", "history", "pushState"}

\* goog.history.Html5History.isSupported(opt_win):
\* !!(win.history && win.history.pushState)
isSupported(win) == win # "none" /\ win = "pushState"

\* The window before new goog.history.Html5History(opt_win): the prototype's
\* defaults are in place and nothing listens to the window.
BeforeConstruction ==
  /\ enabled_ = FALSE
  /\ useFragment_ = TRUE
  /\ pathPrefix_ = <<"/">>
  /\ lastFragment_ = Null
  /\ entries = <<InitialHref>>
  /\ index = 1
  /\ popstateListening = FALSE
  /\ hashchangeListening = FALSE
  /\ historyDisposed = FALSE
  /\ pending = <<>>
  /\ historyLast = NothingDone("none")
  /\ winSupport \in WinSupports
  /\ constructed = "no"

\* The constructor with its two goog.events.listen calls ahead of the
\* assertion.
Html5History_new_ListenFirst ==
  /\ Idle
  /\ constructed = "no"
  /\ popstateListening' = TRUE
  /\ hashchangeListening' = TRUE
  /\ constructed' = IF isSupported(winSupport) THEN "ok" ELSE "failed"
  /\ lastFragment_' = Null
  /\ historyLast' = Did("new", <<>>, FALSE, <<>>, 0, 0)
  /\ UNCHANGED <<enabled_, useFragment_, pathPrefix_, entries, index,
                 historyDisposed, pending, winSupport>>
  /\ UNCHANGED <<dragVars, pureCall>>

\* new goog.history.Html5History(opt_win): goog.asserts.assert raises when
\* isSupported(opt_win) is false, and the rest of the constructor does not
\* run; otherwise lastFragment_ is set and the two listeners are registered.
Html5History_new ==
  /\ Idle
  /\ constructed = "no"
  /\ IF isSupported(winSupport)
     THEN /\ lastFragment_' = Null
          /\ popstateListening' = TRUE
          /\ hashchangeListening' = TRUE
          /\ constructed' = "ok"
     ELSE /\ constructed' = "failed"
          /\ UNCHANGED <<lastFragment_, popstateListening,
                         hashchangeListening>>
  /\ historyLast' = Did("new", <<>>, FALSE, <<>>, 0, 0)
  /\ UNCHANGED <<enabled_, useFragment_, pathPrefix_, entries, index,
                 historyDisposed, pending, winSupport>>
  /\ UNCHANGED <<dragVars, pureCall>>

\* A call of goog.history.Html5History.isSupported(opt_win); historyLast
\* records its result.
Html5History_isSupported ==
  /\ Idle
  /\ historyLast' = Did("isSupported", <<>>, isSupported(winSupport), <<>>,
                        0, 0)
  /\ UNCHANGED <<enabled_, useFragment_, pathPrefix_, lastFragment_, entries,
                 index, popstateListening, hashchangeListening,
                 historyDisposed, pending>>
  /\ UNCHANGED <<dragVars, windowVars, pureCall>>

\* getToken() storing the fragment it read in this.lastFragment_.
Html5History_getToken_Remembering ==
  /\ Idle
  /\ lastFragment_' = getFragment_
  /\ historyLast' = Did("getToken", getToken, FALSE, <<>>, 0, 0)
  /\ UNCHANGED <<enabled_, useFragment_, pathPrefix_, entries, index,
                 popstateListening, hashchangeListening, historyDisposed,
                 pending>>
  /\ UNCHANGED <<dragVars, windowVars, pureCall>>

\* A call of getToken(); historyLast records the token it returns.
Html5History_getToken ==
  /\ Idle
  /\ historyLast' = Did("getToken", getToken, FALSE, <<>>, 0, 0)
  /\ UNCHANGED <<enabled_, useFragment_, pathPrefix_, lastFragment_, entries,
                 index, popstateListening, hashchangeListening,
                 historyDisposed, pending>>
  /\ UNCHANGED <<dragVars, windowVars, pureCall>>

\* The methods of a constructed object.
HistoryCalls ==
  \/ Html5History_getToken
  \/ \E enable \in BOOLEAN : setEnabled(enable)
  \/ \E token \in Tokens : setToken(token)
  \/ \E token \in Tokens : replaceToken(token)
  \/ Html5History_dispose
  \/ \E useFragment \in BOOLEAN : setUseFragment(useFragment)
  \/ \E pathPrefix \in PathPrefixes : setPathPrefix(pathPrefix)

\* The navigations of the host and the signals it raises for them.
HostNext ==
  \/ \E i \in 1..Len(entries), signals \in SignalLists :
       HostTraverse(i, signals)
  \/ \E fragment \in Tokens, signals \in SignalLists :
       HostSetFragment(fragment, signals)
  \/ HostSignal

\* The constructor is called once; the methods need the object it returns;
\* the host navigates whether or not the construction succeeded (a navigation
\* before the construction only changes the location the object is built at).
ConstructNext ==
  \/ Html5History_new
  \/ Html5History_isSupported
  \/ (constructed = "ok" /\ HistoryCalls)
  \/ (constructed # "no" /\ HostNext)

\* A window of any kind, with no Html5History object yet.
InitConstruct == BeforeConstruction /\ DragIdle /\ NoPureCall

SpecConstruct == InitConstruct /\ [][ConstructNext]_vars

(***************************************************************************)
(* Calls of the pure functions of goog.fx.DragScrollSupport                *)
(***************************************************************************)

\* The values calculateScrollDelta is called with.
Coordinates == 0..MaxCoordinate

\* The sides (pixels) of the containers constrainBounds_ is called for, and
\* the margins (pixels) of the objects it is called on.
Sides == (0..MaxSide) \cup {LargeSide}
Margins == (-1..MaxSide) \cup {LargeMargin}

\* A call of calculateScrollDelta(coordinate, min, rangeLength).
Call_calculateScrollDelta(coordinate, min, rangeLength) ==
  /\ pureCall' = [fn |-> "calculateScrollDelta",
                  args |-> <<coordinate, min, rangeLength>>,
                  result |-> calculateScrollDelta(coordinate, min,
                                                  rangeLength)]
  /\ UNCHANGED <<dragVars, historyVars, windowVars>>

\* A call of constrainBounds_(bounds) on an object whose margin_ is margin,
\* as the constructor makes it for a container of width x height pixels; the
\* result is in 1/QuarterScale pixels.
Call_constrainBounds_(width, height, margin) ==
  LET bounds == [left |-> ContainerLeft, top |-> ContainerTop,
                 width |-> width, height |-> height]
  IN  /\ pureCall' = [fn |-> "constrainBounds_",
                      args |-> <<bounds, margin>>,
                      result |-> constrainBounds_(ScaleRect(bounds), margin)]
      /\ UNCHANGED <<dragVars, historyVars, windowVars>>

GeometryNext ==
  \/ \E coordinate \in Coordinates, min \in Coordinates,
        rangeLength \in Coordinates :
       Call_calculateScrollDelta(coordinate, min, rangeLength)
  \/ \E width \in Sides, height \in Sides, margin \in Margins :
       Call_constrainBounds_(width, height, margin)

SpecGeometry == InitHistory /\ [][GeometryNext]_vars

(***************************************************************************)
(* Properties of goog.fx.DragScrollSupport                                 *)
(***************************************************************************)

\* scrollDelta_ is nonzero in at least one axis.
DeltaNonzero == scrollDelta_.x # 0 \/ scrollDelta_.y # 0

\* The point (x, y), in pixels, lies outside the container's bounds; a point
\* on an edge is inside.
OutsideContainer(x, y) ==
  \/ x < containerBounds_.left
  \/ x > containerBounds_.left + containerBounds_.width
  \/ y < containerBounds_.top
  \/ y > containerBounds_.top + containerBounds_.height

\* The coordinate x (y), in pixels, lies outside the trigger zone on its axis.
OutsideZoneX(x) ==
  \/ QuarterScale * x < scrollBounds_.left
  \/ QuarterScale * x > scrollBounds_.left + scrollBounds_.width
OutsideZoneY(y) ==
  \/ QuarterScale * y < scrollBounds_.top
  \/ QuarterScale * y > scrollBounds_.top + scrollBounds_.height

\* The last pointer sample lay outside the container's bounds.  Before the
\* first sample dragLast holds the container's corner, which is inside.
LastSampleOutside == OutsideContainer(dragLast.x, dragLast.y)

\* C1 as stated: in every reachable state scrollDelta_ is nonzero in some
\* axis iff the timer is running, except in states where constrained-scroll
\* mode is on and the last pointer sample lay outside containerBounds_.
C1_DeltaIffTimer_AsStated ==
  (DeltaNonzero <=> scrollTimer_enabled)
    \/ (constrainScroll_ /\ LastSampleOutside)

\* C1 as amended: in every reachable state a running timer implies a nonzero
\* scrollDelta_; a nonzero scrollDelta_ implies a running timer unless the
\* object has been disposed, or constrained-scroll mode was on when the last
\* pointer sample was processed and that sample lay outside containerBounds_.
C1_DeltaIffTimer ==
  /\ scrollTimer_enabled => DeltaNonzero
  /\ (DeltaNonzero /\ ~scrollTimer_enabled) =>
       (dragDisposed \/ (dragLast.constrain /\ LastSampleOutside))

\* C1 witness: a suppressed sample followed by setConstrainScroll(false): the
\* delta is nonzero, the timer is stopped, constrained-scroll mode is off.
C1_Witness ==
  /\ DeltaNonzero
  /\ ~scrollTimer_enabled
  /\ ~dragDisposed
  /\ ~constrainScroll_
  /\ dragLast.constrain
  /\ LastSampleOutside

\* C2: immediately after onMouseMove the timer is running iff the delta of
\* the sample is nonzero in some axis and it is not the case that
\* constrained-scroll mode is on with the sample outside containerBounds_.
C2_TimerAfterSample ==
  dragLast.op = "onMouseMove" =>
    (scrollTimer_enabled <=>
       (DeltaNonzero /\ ~(constrainScroll_ /\ LastSampleOutside)))

\* C2 witness: a sample with a nonzero delta that leaves the timer stopped.
C2_Witness ==
  /\ dragLast.op = "onMouseMove"
  /\ DeltaNonzero
  /\ ~scrollTimer_enabled

\* C3 as stated: with a nonzero margin and constrained-scroll mode on, a
\* sample outside containerBounds_ leaves the timer stopped with a nonzero
\* stored delta, and a sample inside containerBounds_ but outside the trigger
\* zone starts the timer.
C3_Constrained_AsStated ==
  (dragLast.op = "onMouseMove" /\ margin_ # 0 /\ constrainScroll_) =>
    /\ LastSampleOutside => (~scrollTimer_enabled /\ DeltaNonzero)
    /\ (~LastSampleOutside
          /\ (OutsideZoneX(dragLast.x) \/ OutsideZoneY(dragLast.y)))
         => scrollTimer_enabled

\* The last sample is outside the trigger zone on an axis that onMouseMove
\* evaluates: the Y axis, or the X axis with horizontal scrolling allowed.
LastSampleTriggers ==
  \/ (horizontalScrolling_ /\ OutsideZoneX(dragLast.x))
  \/ OutsideZoneY(dragLast.y)

\* C3 as amended: with a nonzero margin and constrained-scroll mode on, a
\* sample outside containerBounds_ leaves the timer stopped, and its stored
\* delta is nonzero iff the sample is outside the trigger zone on an evaluated
\* axis; a sample inside containerBounds_ starts the timer iff it is outside
\* the trigger zone on an evaluated axis.
C3_Constrained ==
  (dragLast.op = "onMouseMove" /\ margin_ # 0 /\ constrainScroll_) =>
    /\ LastSampleOutside =>
         (~scrollTimer_enabled /\ (DeltaNonzero <=> LastSampleTriggers))
    /\ ~LastSampleOutside => (scrollTimer_enabled <=> LastSampleTriggers)

\* C3 witness: a constrained sample outside the container with a nonzero
\* stored delta and the timer stopped.
C3_Witness ==
  /\ dragLast.op = "onMouseMove"
  /\ margin_ # 0
  /\ constrainScroll_
  /\ LastSampleOutside
  /\ DeltaNonzero
  /\ ~scrollTimer_enabled

SignalOps == {"popstate", "hashchange", "hashchange after popstate"}

\* C4: setToken(t) called twice in a row with the same t: the second call
\* pushes nothing and dispatches nothing; and a setToken(t) with t different
\* from getToken() pushes exactly one entry and dispatches exactly one event
\* carrying t.
C4_SetTokenTwice ==
  [][historyLast'.op = "setToken" =>
       /\ (historyLast.op = "setToken"
             /\ historyLast'.token = historyLast.token) =>
            /\ historyLast'.pushed = 0
            /\ historyLast'.events = <<>>
            /\ UNCHANGED <<entries, index>>
       /\ historyLast'.token # getToken =>
            /\ historyLast'.pushed = 1
            /\ entries' = AddEntry(ResolveUrl(getUrl_(historyLast'.token)))
            /\ index' = Len(entries')
            /\ historyLast'.events = <<Event(historyLast'.token, FALSE)>>]_vars

\* C5: while the object is enabled, a POPSTATE signal it handles dispatches
\* one NAVIGATE event; a HASHCHANGE signal it handles in fragment mode
\* dispatches one iff the fragment differs from lastFragment_; so the
\* HASHCHANGE that follows the handled POPSTATE of the same navigation
\* dispatches nothing.
C5_DuplicateSuppression ==
  [][(pending # <<>> /\ Listening(Head(pending)) /\ enabled_) =>
       /\ Head(pending) = "popstate" =>
            /\ historyLast'.events = <<Event(getToken, TRUE)>>
            /\ lastFragment_' = getFragment_
       /\ (Head(pending) = "hashchange" /\ useFragment_) =>
            /\ historyLast'.events =
                 IF getFragment_ # lastFragment_
                 THEN <<Event(getToken, TRUE)>>
                 ELSE <<>>
            /\ lastFragment_' = getFragment_
       /\ (Head(pending) = "hashchange" /\ useFragment_
             /\ historyLast.op = "popstate" /\ historyLast.flag) =>
            /\ Len(historyLast.events) = 1
            /\ historyLast'.events = <<>>]_vars

\* C5 witness: enabled and in fragment mode, the HASHCHANGE after a handled
\* POPSTATE was handled for the fragment the POPSTATE reported, and
\* dispatched nothing.
C5_Witness ==
  /\ historyLast.op = "hashchange after popstate"
  /\ historyLast.flag
  /\ enabled_
  /\ useFragment_
  /\ lastFragment_ = getFragment_
  /\ lastFragment_ # <<>>
  /\ historyLast.events = <<>>

\* C6: setEnabled(true) on a disabled object sets enabled_ and dispatches one
\* event carrying getToken() with isNavigation false; setEnabled(false) on an
\* enabled object clears enabled_ and dispatches nothing; setEnabled with the
\* current value changes and dispatches nothing; nothing but enabled_ changes.
C6_SetEnabled ==
  [][historyLast'.op = "setEnabled" =>
       /\ enabled_' = historyLast'.flag
       /\ historyLast'.events =
            IF historyLast'.flag /\ ~enabled_
            THEN <<Event(getToken, FALSE)>>
            ELSE <<>>
       /\ UNCHANGED <<useFragment_, pathPrefix_, lastFragment_, entries,
                      index, popstateListening, hashchangeListening,
                      historyDisposed, pending>>]_vars

\* C6 witness: setEnabled(true) was called on an enabled object and dispatched
\* nothing.
C6_Witness ==
  /\ historyLast.op = "setEnabled"
  /\ historyLast.flag
  /\ enabled_
  /\ historyLast.events = <<>>

\* C7: every replaceToken(token) calls replaceState once and pushState never,
\* and dispatches one event carrying token with isNavigation false, also when
\* token equals getToken(); the number of entries, the current index and the
\* entries other than the current one are unchanged.
C7_ReplaceToken ==
  [][historyLast'.op = "replaceToken" =>
       /\ historyLast'.replaced = 1
       /\ historyLast'.pushed = 0
       /\ historyLast'.events = <<Event(historyLast'.token, FALSE)>>
       /\ entries'[index] = ResolveUrl(getUrl_(historyLast'.token))
       /\ Len(entries') = Len(entries)
       /\ index' = index
       /\ \A i \in 1..Len(entries) : i # index => entries'[i] = entries[i]]_vars

\* C7 witness: replaceToken(token) with the token that getToken() returns,
\* on the first of two entries, dispatched its event.
C7_Witness ==
  /\ historyLast.op = "replaceToken"
  /\ historyLast.token = getToken
  /\ historyLast.events = <<Event(getToken, FALSE)>>
  /\ Len(entries) = 2
  /\ index = 1

\* C8: in a state where enabled_ is false the last step dispatched no event:
\* only the setEnabled(true) transition dispatches from the disabled state.
C8_EventsOnlyWhileEnabled ==
  ~enabled_ => historyLast.events = <<>>

\* A second dispose changes nothing.
DisposeTwice ==
  [][(historyDisposed /\ historyLast'.op = "dispose") =>
       UNCHANGED <<enabled_, useFragment_, pathPrefix_, lastFragment_,
                   entries, index, popstateListening, hashchangeListening,
                   historyDisposed, pending>>]_vars

\* C10: after dispose, whatever was called after the disposal (setUseFragment
\* included), the handling of a host POPSTATE or HASHCHANGE signal dispatches
\* no event.
C10_Dispose ==
  (historyDisposed /\ historyLast.op \in SignalOps) =>
    historyLast.events = <<>>

\* C11: when isSupported is false the constructor fails, and then nothing
\* listens to POPSTATE or HASHCHANGE on the window and no signal dispatches
\* an event; when isSupported is true the construction succeeds; a call of
\* isSupported changes nothing.
C11_FailFast ==
  /\ [](constructed = "failed" =>
          /\ ~isSupported(winSupport)
          /\ ~popstateListening
          /\ ~hashchangeListening
          /\ historyLast.events = <<>>)
  /\ [](constructed = "ok" => isSupported(winSupport))
  /\ [][historyLast'.op = "isSupported" =>
          /\ historyLast'.flag = (winSupport = "pushState")
          /\ UNCHANGED <<enabled_, useFragment_, pathPrefix_, lastFragment_,
                         entries, index, popstateListening,
                         hashchangeListening, historyDisposed, pending,
                         winSupport, constructed>>]_vars

\* C11 witness: on a window whose history has no pushState the construction
\* failed, and the host then raised a HASHCHANGE that nothing handled.
C11_Witness ==
  /\ constructed = "failed"
  /\ winSupport = "history"
  /\ historyLast.op = "hashchange"
  /\ ~historyLast.flag

\* C12: calculateScrollDelta(coordinate, min, rangeLength) is -SCROLL_STEP_
\* for coordinate < min, SCROLL_STEP_ for coordinate > min + rangeLength and
\* 0 otherwise, the two boundaries included; SCROLL_STEP_ is 8.
C12_CalculateScrollDelta ==
  pureCall.fn = "calculateScrollDelta" =>
    LET coordinate == pureCall.args[1]
        min == pureCall.args[2]
        rangeLength == pureCall.args[3]
    IN  /\ SCROLL_STEP_ = 8
        /\ coordinate < min => pureCall.result = -8
        /\ coordinate > min + rangeLength => pureCall.result = 8
        /\ (min <= coordinate /\ coordinate <= min + rangeLength) =>
             pureCall.result = 0

\* C12 witness: a call at the upper boundary of a nonempty range returned 0.
C12_Witness ==
  /\ pureCall.fn = "calculateScrollDelta"
  /\ pureCall.args[3] > 0
  /\ pureCall.args[1] = pureCall.args[2] + pureCall.args[3]
  /\ pureCall.result = 0

\* The inset (1/QuarterScale pixels) that margin makes on a side of a
\* container whose extent on that axis is side pixels: min(margin, side / 4).
Inset(margin, side) ==
  IF QuarterScale * margin <= side THEN QuarterScale * margin ELSE side

\* The trigger zone that the last call of constrainBounds_ returned is the
\* container inset by min(margin, width / 4) on the left and right and by
\* min(margin, height / 4) at the top and bottom, has a width and a height
\* that are not negative and at least half the container's, and lies inside
\* the container.
ZoneClamped ==
  LET bounds == ScaleRect(pureCall.args[1])
      margin == pureCall.args[2]
      zone == pureCall.result
      xMargin == Inset(margin, pureCall.args[1].width)
      yMargin == Inset(margin, pureCall.args[1].height)
  IN  /\ zone.left = bounds.left + xMargin
      /\ zone.top = bounds.top + yMargin
      /\ zone.width = bounds.width - 2 * xMargin
      /\ zone.height = bounds.height - 2 * yMargin
      /\ zone.width >= 0
      /\ zone.height >= 0
      /\ 2 * zone.width >= bounds.width
      /\ 2 * zone.height >= bounds.height
      /\ zone.left >= bounds.left
      /\ zone.top >= bounds.top
      /\ zone.left + zone.width <= bounds.left + bounds.width
      /\ zone.top + zone.height <= bounds.top + bounds.height

\* C13 as stated: for every container with non-negative width and height and
\* every margin, the trigger zone is the container inset by the clamped
\* margin, is not negative in size and lies inside the container.
C13_MarginClamped_AsStated ==
  pureCall.fn = "constrainBounds_" => ZoneClamped

\* C13 as amended: the same for every margin that is not negative.
C13_MarginClamped ==
  (pureCall.fn = "constrainBounds_" /\ pureCall.args[2] >= 0) => ZoneClamped

\* C13 witness: a square container with a margin of more than a quarter of
\* its side (100 x 100 with margin 60) got a zone of half its side, inset by
\* a quarter of the side (25).
C13_Witness ==
  /\ pureCall.fn = "constrainBounds_"
  /\ pureCall.args[1].width = LargeSide
  /\ pureCall.args[1].height = LargeSide
  /\ pureCall.args[2] = LargeMargin
  /\ pureCall.result.left = QuarterScale * ContainerLeft + LargeSide
  /\ 2 * pureCall.result.width = QuarterScale * LargeSide
  /\ 2 * pureCall.result.height = QuarterScale * LargeSide

\* On an object built with margin 0 constrained-scroll mode is off, whatever
\* setConstrainScroll was called with, and a pointer sample starts the timer
\* iff the delta stored for it is nonzero, as it does when setConstrainScroll
\* was never called.
NoMarginNoConstraint ==
  margin_ = 0 =>
    /\ ~constrainScroll_
    /\ dragLast.op = "onMouseMove" => (scrollTimer_enabled <=> DeltaNonzero)

\* C14 as stated: on an object built with margin 0 setConstrainScroll has no
\* effect, every sample's timer decision is the unconstrained one, and a
\* sample outside containerBounds_ starts the timer.
C14_NoMargin_AsStated ==
  /\ NoMarginNoConstraint
  /\ (margin_ = 0 /\ dragLast.op = "onMouseMove" /\ LastSampleOutside) =>
       scrollTimer_enabled

\* C14 as amended: the same, with the sample outside containerBounds_ on an
\* axis that onMouseMove evaluates (the Y axis, or the X axis while horizontal
\* scrolling is allowed).
C14_NoMargin ==
  /\ NoMarginNoConstraint
  /\ (margin_ = 0 /\ dragLast.op = "onMouseMove" /\ LastSampleOutside
        /\ LastSampleTriggers) =>
       scrollTimer_enabled
  /\ (margin_ = 0 /\ dragLast.op = "onMouseMove" /\ LastSampleOutside
        /\ horizontalScrolling_) =>
       scrollTimer_enabled

\* C14 witness: setConstrainScroll(true) was called on an object built with
\* margin 0 whose last sample, outside containerBounds_, had started the
\* timer; the mode is off and the timer still runs.
C14_Witness ==
  /\ margin_ = 0
  /\ dragLast.op = "setConstrainScroll"
  /\ dragLast.flag
  /\ ~constrainScroll_
  /\ LastSampleOutside
  /\ scrollTimer_enabled

\* C15: every event dispatched for a host POPSTATE or HASHCHANGE signal
\* carries isNavigation true, every event dispatched by setEnabled, setToken
\* or replaceToken carries isNavigation false, and no other operation
\* dispatches an event.
C15_OriginFlag ==
  /\ \A i \in 1..Len(historyLast.events) :
       historyLast.events[i].isNavigation = (historyLast.op \in SignalOps)
  /\ historyLast.events # <<>> =>
       historyLast.op \in
         SignalOps \cup {"setEnabled", "setToken", "replaceToken"}

\* C15 witness: a HASHCHANGE that came without a POPSTATE dispatched an event
\* for the token of the new fragment.
C15_Witness ==
  /\ historyLast.op = "hashchange"
  /\ getToken # <<>>
  /\ historyLast.events = <<Event(getToken, TRUE)>>

\* C16: from construction to disposal the POPSTATE listener is registered,
\* and the HASHCHANGE listener is registered iff useFragment_ is true; a
\* setUseFragment with the current value registers and unregisters nothing.
C16_Listeners ==
  /\ [](~historyDisposed =>
          /\ popstateListening
          /\ hashchangeListening <=> useFragment_)
  /\ [][(historyLast'.op = "setUseFragment"
           /\ historyLast'.flag = useFragment_) =>
          UNCHANGED <<popstateListening, hashchangeListening,
                      useFragment_>>]_vars

\* C16 witness: setUseFragment(false) on an enabled object that is not
\* disposed removed the HASHCHANGE listener and left the POPSTATE listener.
C16_Witness ==
  /\ historyLast.op = "setUseFragment"
  /\ ~historyLast.flag
  /\ ~historyDisposed
  /\ enabled_
  /\ ~useFragment_
  /\ ~hashchangeListening
  /\ popstateListening

\* C17: while the object is enabled and in fragment mode, a HASHCHANGE that
\* comes without a POPSTATE and is handled dispatches an event whenever the
\* fragment differs from the token of the most recent event dispatched; so a
\* HASHCHANGE that dispatched nothing found the fragment that was reported
\* last.
C17_NeverSuppressed ==
  (historyLast.op = "hashchange" /\ historyLast.flag /\ enabled_
     /\ useFragment_ /\ historyLast.events = <<>>) =>
    getFragment_ = historyLast.reported

\* C18: a tick happens only while the timer runs and finds a nonzero delta;
\* it adds scrollDelta_.y to scrollTop and scrollDelta_.x to scrollLeft and
\* changes nothing else; the delta it adds is the one the most recent pointer
\* sample stored, since only onMouseMove writes scrollDelta_.
C18_Tick ==
  /\ [][dragLast'.op = "onTick_" =>
          /\ scrollTimer_enabled
          /\ DeltaNonzero
          /\ scrollTop' = scrollTop + scrollDelta_.y
          /\ scrollLeft' = scrollLeft + scrollDelta_.x
          /\ scrollDelta_.y = calculateScrollDelta(QuarterScale * dragLast.y,
                                                   scrollBounds_.top,
                                                   scrollBounds_.height)
          /\ scrollDelta_.x \in
               {0, calculateScrollDelta(QuarterScale * dragLast.x,
                                        scrollBounds_.left,
                                        scrollBounds_.width)}
          /\ UNCHANGED <<constrainScroll_, horizontalScrolling_, margin_,
                         containerIsActuallyContent_, containerBounds_,
                         scrollBounds_, scrollDelta_, scrollTimer_enabled,
                         mouseMoveListening, tickListening,
                         dragDisposed>>]_vars
  /\ [][scrollDelta_' # scrollDelta_ => dragLast'.op = "onMouseMove"]_vars

\* C18 witness: a tick has scrolled the container down by one step while the
\* timer runs.
C18_Witness ==
  /\ dragLast.op = "onTick_"
  /\ scrollTimer_enabled
  /\ scrollDelta_.y = SCROLL_STEP_
  /\ scrollTop = SCROLL_STEP_

\* C19: while horizontalScrolling_ is false (setHorizontalScrolling(false)
\* was called and not undone) no tick changes scrollLeft, and every pointer
\* sample stores scrollDelta_.x = 0 and the Y delta of its position.
C19_HorizontalOff ==
  [][~horizontalScrolling_ =>
       /\ dragLast'.op = "onTick_" => scrollLeft' = scrollLeft
       /\ dragLast'.op = "onMouseMove" =>
            /\ scrollDelta_'.x = 0
            /\ scrollDelta_'.y = DeltaY(dragLast'.y)]_vars

\* C20: right after setToken(t) or replaceToken(t), getToken() returns t, in
\* fragment mode and in path mode; in path mode the call leaves the query
\* string of the location unchanged.
C20_RoundTrip ==
  [][historyLast'.op \in {"setToken", "replaceToken"} =>
       /\ getToken' = historyLast'.token
       /\ ~useFragment_ => Search(Href)' = Search(Href)]_vars

\* C21: enabled_ changes only in setEnabled and useFragment_ only in
\* setUseFragment; a call of getToken changes nothing, dispatches nothing and
\* returns the token of the current location, so two calls with no change of
\* the location in between return the same value.
C21_Frame ==
  /\ [][enabled_' # enabled_ => historyLast'.op = "setEnabled"]_vars
  /\ [][useFragment_' # useFragment_ =>
          historyLast'.op = "setUseFragment"]_vars
  /\ [][historyLast'.op = "getToken" =>
          /\ historyLast'.token = getToken
          /\ historyLast'.token = getToken'
          /\ historyLast'.events = <<>>
          /\ historyLast'.pushed = 0
          /\ historyLast'.replaced = 0
          /\ UNCHANGED <<enabled_, useFragment_, pathPrefix_, lastFragment_,
                         entries, index, popstateListening,
                         hashchangeListening, historyDisposed, pending,
                         winSupport, constructed>>]_vars
  /\ [][(historyLast.op = "getToken" /\ historyLast'.op = "getToken") =>
          historyLast'.token = historyLast.token]_vars

\* C21 witness: getToken was called on an enabled object in path mode and
\* returned the token "a" of the location.
C21_Witness ==
  /\ historyLast.op = "getToken"
  /\ historyLast.token = <<"a">>
  /\ enabled_
  /\ ~useFragment_
  /\ lastFragment_ # <<"a">>

\* The fields of the DragScrollSupport object and of its container other than
\* the two flags.
dragRest == <<margin_, containerIsActuallyContent_, containerBounds_,
              scrollBounds_, scrollDelta_, scrollTimer_enabled,
              mouseMoveListening, tickListening, dragDisposed, scrollTop,
              scrollLeft>>

\* C22: setConstrainScroll and setHorizontalScrolling write only their own
\* flag: scrollDelta_ and the timer are as before; so a tick that follows a
\* setter adds the delta stored before the setter was called.
C22_SetterFrame ==
  /\ [][dragLast'.op = "setConstrainScroll" =>
          /\ constrainScroll_' = (margin_ # 0 /\ dragLast'.flag)
          /\ UNCHANGED <<horizontalScrolling_, dragRest>>]_vars
  /\ [][dragLast'.op = "setHorizontalScrolling" =>
          /\ horizontalScrolling_' = dragLast'.flag
          /\ UNCHANGED <<constrainScroll_, dragRest>>]_vars
  /\ [][(dragLast.op \in {"setConstrainScroll", "setHorizontalScrolling"}
           /\ dragLast'.op = "onTick_") =>
          /\ scrollTop' = scrollTop + scrollDelta_.y
          /\ scrollLeft' = scrollLeft + scrollDelta_.x
          /\ UNCHANGED scrollDelta_]_vars

\* C22 witness: setHorizontalScrolling(false) was called while the timer ran
\* with a horizontal delta; the delta is kept and the timer still runs.
C22_Witness ==
  /\ dragLast.op = "setHorizontalScrolling"
  /\ ~dragLast.flag
  /\ ~horizontalScrolling_
  /\ scrollTimer_enabled
  /\ scrollDelta_.x # 0

====
